---- MODULE Spec2Model ----
(***************************************************************************)
(* Model of fastlzlib.c: the zlib-like streaming interface to FastLZ.      *)
(* Bytes are integers 0..255; a byte of memory that was never written is   *)
(* the marker Indet.  Caller memory is a sequence of bytes; next_in and    *)
(* next_out are offsets into the caller's input and output memory.         *)
(***************************************************************************)
EXTENDS Integers, Sequences, FiniteSets, TLC

VARIABLES s, mem, out, call, ret, fresh, resets, orig, heap

vars == <<s, mem, out, call, ret, fresh, resets, orig, heap>>

(***************************************************************************)
(* Program constants                                                       *)
(***************************************************************************)
EXPANSION_RATIO == 10
EXPANSION_SECURITY == 66
HEADER_SIZE == 20
MIN_BLOCK_SIZE == 64
BLOCK_TYPE_RAW == 192
BLOCK_TYPE_COMPRESSED == 12
BLOCK_TYPE_BAD_MAGIC == 65535
ZFAST_LEVEL_DECOMPRESS == -2
Z_NO_FLUSH == 0
Z_SYNC_FLUSH == 2
Z_FINISH == 4
Z_NO_COMPRESSION == 0
Z_BEST_SPEED == 1
Z_BEST_COMPRESSION == 9

\* the 7 bytes "FastLZ\0" compared by memcmp/memcpy
BLOCK_MAGIC == <<70, 97, 115, 116, 76, 90, 0>>

\* value of a byte of memory that no one wrote
Indet == -1

(***************************************************************************)
(* Bounds of the model                                                     *)
(***************************************************************************)
BlockExtra == 2
MaxBlocks == 1
SmallWindow == 1
PartWindow == 24
HugeWindow == 400
MaxResets == 1
PatternPeriod == 16

(***************************************************************************)
(* Sequence helpers                                                        *)
(***************************************************************************)
Min(a, b) == IF a < b THEN a ELSE b

Rep(b, n) == [i \in 1..n |-> b]

Take(q, n) == SubSeq(q, 1, Min(n, Len(q)))

Drop(q, n) == SubSeq(q, n + 1, Len(q))

\* memory read of n bytes at offset offs; bytes beyond what was written are Indet
Peek(buf, offs, n) == [i \in 1..n |-> IF offs + i <= Len(buf) THEN buf[offs + i] ELSE Indet]

\* memcpy(&buf[offs], bytes, Len(bytes))
Poke(buf, offs, bytes) ==
  LET n == IF Len(buf) > offs + Len(bytes) THEN Len(buf) ELSE offs + Len(bytes)
  IN [i \in 1..n |-> IF i > offs /\ i <= offs + Len(bytes) THEN bytes[i - offs]
                     ELSE IF i <= Len(buf) THEN buf[i] ELSE Indet]

(***************************************************************************)
(* READ_xx / WRITE_xx macros (little endian).  The streams of the model    *)
(* keep the top byte of every 32-bit field below 128, so that a uInt and   *)
(* its (int) cast are the same number.                                     *)
(***************************************************************************)
READ_32(q, offs) ==
  q[offs + 1] + 256 * q[offs + 2] + 65536 * q[offs + 3] + 16777216 * q[offs + 4]

WRITE_32(n) ==
  << n % 256, (n \div 256) % 256, (n \div 65536) % 256, (n \div 16777216) % 256 >>

WRITE_8(n) == << n % 256 >>

(***************************************************************************)
(* Header codec                                                            *)
(***************************************************************************)
fastlz_write_header(type, block_size, compressed, original) ==
  BLOCK_MAGIC \o WRITE_8(type) \o WRITE_32(compressed) \o WRITE_32(original)
              \o WRITE_32(block_size)

\* note: block_size is read at offset 12, as the source does
fastlz_read_header(source) ==
  IF SubSeq(source, 1, 7) = BLOCK_MAGIC
  THEN [type |-> source[8],
        compressed |-> READ_32(source, 8),
        original |-> READ_32(source, 12),
        block_size |-> READ_32(source, 12)]
  ELSE [type |-> BLOCK_TYPE_BAD_MAGIC, compressed |-> 0, original |-> 0, block_size |-> 0]

fastlzlibGetStreamBlockSize(input, length) ==
  IF length >= HEADER_SIZE THEN fastlz_read_header(input).block_size ELSE 0

(***************************************************************************)
(* The external block codec (fastlz.c is not part of the sources): a       *)
(* lossless, deterministic run-length coder.  A token t < 32 introduces    *)
(* t + 1 literal bytes, a token t >= 32 a run of t - 29 copies of the next *)
(* byte.  Level 1 codes runs of 4 and more, level 2 runs of 3 and more.    *)
(***************************************************************************)
MaxLit == 32
MaxRun == 226
RunBias == 29

RECURSIVE RunLength(_, _, _)
RunLength(src, i, n) ==
  IF i + n <= Len(src) /\ src[i + n] = src[i] /\ n < MaxRun
  THEN RunLength(src, i, n + 1) ELSE n

FlushLit(lit) == IF lit = <<>> THEN <<>> ELSE <<Len(lit) - 1>> \o lit

RECURSIVE EncodeAt(_, _, _, _)
EncodeAt(level, src, i, lit) ==
  IF i > Len(src) THEN FlushLit(lit)
  ELSE LET r == RunLength(src, i, 1)
       IN IF r >= (IF level = 1 THEN 4 ELSE 3)
          THEN FlushLit(lit) \o <<r + RunBias, src[i]>> \o EncodeAt(level, src, i + r, <<>>)
          ELSE IF Len(lit) = MaxLit
               THEN FlushLit(lit) \o EncodeAt(level, src, i + 1, <<src[i]>>)
               ELSE EncodeAt(level, src, i + 1, lit \o <<src[i]>>)

fastlz_compress_level(level, input) == EncodeAt(level, input, 1, <<>>)

RECURSIVE DecodeAt(_, _, _, _)
DecodeAt(src, i, acc, maxout) ==
  IF i > Len(src) THEN [done |-> Len(acc), data |-> acc]
  ELSE LET t == src[i]
       IN IF t < 0 THEN [done |-> 0, data |-> acc]
          ELSE IF t < MaxLit
          THEN IF i + t + 1 > Len(src) \/ Len(acc) + t + 1 > maxout
               THEN [done |-> 0, data |-> acc]
               ELSE DecodeAt(src, i + t + 2, acc \o SubSeq(src, i + 1, i + t + 1), maxout)
          ELSE IF i + 1 > Len(src) \/ Len(acc) + t - RunBias > maxout
               THEN [done |-> 0, data |-> acc]
               ELSE DecodeAt(src, i + 2, acc \o Rep(src[i + 1], t - RunBias), maxout)

\* returns the number of bytes produced (0 on failure) and the bytes written
fastlz_decompress(input, maxout) == DecodeAt(input, 1, <<>>, maxout)

(***************************************************************************)
(* The allocator behind zalloc/zfree, and the three pointers of a stream.  *)
(* A block is named by the order of its allocation; NULL is 0.  heap.live  *)
(* is the set of blocks not yet freed, heap.freed the blocks handed to     *)
(* zfree, in order, heap.refused the number of requests that returned      *)
(* NULL, heap.ptr what the last zalloc returned                            *)
(***************************************************************************)
NULL == 0

NoHeap == [state |-> NULL, inBuff |-> NULL, outBuff |-> NULL, ptr |-> NULL,
           live |-> {}, freed |-> <<>>, made |-> 0, refused |-> 0]

\* ok: the request is granted
zalloc(h, ok) ==
  IF ok THEN [h EXCEPT !.ptr = h.made + 1, !.live = @ \cup {h.made + 1}, !.made = @ + 1]
  ELSE [h EXCEPT !.ptr = NULL, !.refused = @ + 1]

zfree(h, address) == [h EXCEPT !.live = @ \ {address}, !.freed = Append(@, address)]

\* line 214: s->state = zalloc(...)
AllocState(h, ok) == [zalloc(h, ok) EXCEPT !.state = IF ok THEN h.made + 1 ELSE NULL]

\* line 218: s->state->inBuff = zalloc(...)
AllocInBuff(h, ok) == [zalloc(h, ok) EXCEPT !.inBuff = IF ok THEN h.made + 1 ELSE NULL]

\* line 219: s->state->outBuff = zalloc(...)
AllocOutBuff(h, ok) == [zalloc(h, ok) EXCEPT !.outBuff = IF ok THEN h.made + 1 ELSE NULL]

\* lines 186-189
FreeInBuff(h) ==
  IF h.inBuff # NULL THEN [zfree(h, h.inBuff) EXCEPT !.inBuff = NULL] ELSE h

\* lines 190-193
FreeOutBuff(h) ==
  IF h.outBuff # NULL THEN [zfree(h, h.outBuff) EXCEPT !.outBuff = NULL] ELSE h

\* fastlzlibFree forgetting the input buffer
fastlzlibFree_LeakInBuff(h) ==
  IF h.state # NULL
  THEN [zfree(FreeOutBuff(h), h.state) EXCEPT !.state = NULL]
  ELSE h

fastlzlibFree(h) ==
  IF h.state # NULL
  THEN [zfree(FreeOutBuff(FreeInBuff(h)), h.state) EXCEPT !.state = NULL]
  ELSE h

\* the three blocks of a stream whose init succeeded
Allocated == AllocOutBuff(AllocInBuff(AllocState(NoHeap, TRUE), TRUE), TRUE)

(***************************************************************************)
(* zfast_stream and its internal_state, as one record                      *)
(***************************************************************************)
BLOCK_SIZE(st) == st.block_size

BUFFER_BLOCK_SIZE(st) ==
  BLOCK_SIZE(st) + BLOCK_SIZE(st) \div EXPANSION_RATIO + HEADER_SIZE * 2

ZFAST_IS_COMPRESSING(st) == st.level # ZFAST_LEVEL_DECOMPRESS

ZFAST_IS_DECOMPRESSING(st) == ~ZFAST_IS_COMPRESSING(st)

ZFAST_INPUT_IS_EMPTY(st) == st.avail_in = 0

ZFAST_OUTPUT_IS_FULL(st) == st.avail_out = 0

ZFAST_HAS_BUFFERED_OUTPUT(st) == st.outBuffOffs < st.dec_size

inSeek(st, offs) ==
  [st EXCEPT !.next_in = @ + offs, !.avail_in = @ - offs, !.total_in = @ + offs]

\* outSeek forgetting the total_out counter
outSeek_NoTotal(st, offs) ==
  [st EXCEPT !.next_out = @ + offs, !.avail_out = @ - offs]

outSeek(st, offs) ==
  [st EXCEPT !.next_out = @ + offs, !.avail_out = @ - offs, !.total_out = @ + offs]

zlibLevelToFastlz(level) == IF level <= Z_BEST_SPEED THEN 1 ELSE 2

\* fastlzlibReset leaving the announced block size in place
fastlzlibReset_KeepStrSize(st) ==
  [st EXCEPT !.msg = "", !.inHdrOffs = 0, !.block_type = 0, !.dec_size = 0,
             !.inBuffOffs = 0, !.outBuffOffs = 0]

fastlzlibReset(st) ==
  [st EXCEPT !.msg = "", !.inHdrOffs = 0, !.block_type = 0, !.str_size = 0,
             !.dec_size = 0, !.inBuffOffs = 0, !.outBuffOffs = 0]

\* the descriptor after fastlzlibInit succeeded; the caller's cursors start at 0
fastlzlibInit(block_size) ==
  fastlzlibReset(
    [next_in |-> 0, avail_in |-> 0, total_in |-> 0,
     next_out |-> 0, avail_out |-> 0, total_out |-> 0, msg |-> "",
     level |-> 0, inHdr |-> <<>>, inHdrOffs |-> 0,
     block_size |-> block_size, block_type |-> 0, str_size |-> 0, dec_size |-> 0,
     inBuff |-> <<>>, outBuff |-> <<>>, inBuffOffs |-> 0, outBuffOffs |-> 0])

fastlzlibCompressInit2(level, block_size) ==
  [fastlzlibInit(block_size) EXCEPT
     !.level = IF level < Z_NO_COMPRESSION \/ level > Z_BEST_COMPRESSION
               THEN Z_BEST_COMPRESSION ELSE level]

fastlzlibDecompressInit2(block_size) ==
  [fastlzlibInit(block_size) EXCEPT !.level = ZFAST_LEVEL_DECOMPRESS]

\* lines 361-385, with the block's payload and type decided
WriteBlock(length, output_length, block_size, flush, payload, type) ==
  LET block == IF length > 0
               THEN fastlz_write_header(type, block_size, Len(payload), length) \o payload
               ELSE <<>>
      eof == IF flush = Z_FINISH
             THEN fastlz_write_header(BLOCK_TYPE_COMPRESSED, block_size, 0, 0)
             ELSE <<>>
  IN [bytes |-> block \o eof,
      ok |-> /\ (length > 0 => Len(payload) + HEADER_SIZE * 2 <= output_length)
             /\ Len(block) + Len(eof) <= output_length]

\* fastlz_compress_hdr running the block compressor on blocks of MIN_BLOCK_SIZE bytes too
fastlz_compress_hdr_AtLeast(input, output_length, block_size, level, flush) ==
  WriteBlock(Len(input), output_length, block_size, flush,
             IF Len(input) >= MIN_BLOCK_SIZE THEN fastlz_compress_level(level, input)
             ELSE input,
             IF Len(input) >= MIN_BLOCK_SIZE THEN BLOCK_TYPE_COMPRESSED
             ELSE BLOCK_TYPE_RAW)

fastlz_compress_hdr(input, output_length, block_size, level, flush) ==
  WriteBlock(Len(input), output_length, block_size, flush,
             IF Len(input) > MIN_BLOCK_SIZE THEN fastlz_compress_level(level, input)
             ELSE input,
             IF Len(input) > MIN_BLOCK_SIZE THEN BLOCK_TYPE_COMPRESSED
             ELSE BLOCK_TYPE_RAW)

(***************************************************************************)
(* fastlzlibProcess.  The result is the descriptor after the call, the     *)
(* return code, wr, the bytes the call stored at the old next_out, and     *)
(* hdr, the 20 bytes the call applied as a block header (<<>> if none).    *)
(* A failed assert ends the program: the return code is "ABORT".           *)
(***************************************************************************)
Result(st, code, wr) == [s |-> st, ret |-> code, wr |-> wr, hdr |-> <<>>]

\* DrainPhase copying from the start of outBuff on every call
DrainPhase_FromStart(st) ==
  LET size == Min(st.dec_size - st.outBuffOffs, st.avail_out)
  IN Result(outSeek([st EXCEPT !.outBuffOffs = @ + size], size), "OK",
            Peek(st.outBuff, 0, size))

\* DrainPhase taking the offered input along
DrainPhase_SkipsInput(st) ==
  LET size == Min(st.dec_size - st.outBuffOffs, st.avail_out)
  IN Result(inSeek(outSeek([st EXCEPT !.outBuffOffs = @ + size], size), st.avail_in), "OK",
            Peek(st.outBuff, st.outBuffOffs, size))

\* lines 407-422: deliver staged output first
DrainPhase(st) ==
  LET size == Min(st.dec_size - st.outBuffOffs, st.avail_out)
  IN Result(outSeek([st EXCEPT !.outBuffOffs = @ + size], size), "OK",
            Peek(st.outBuff, st.outBuffOffs, size))

\* StageHeader storing the bytes without counting them
StageHeader_NoCount(st, m) ==
  LET n == IF st.inHdrOffs < HEADER_SIZE
           THEN Min(st.avail_in, HEADER_SIZE - st.inHdrOffs) ELSE 0
  IN inSeek([st EXCEPT !.inHdr = Poke(@, st.inHdrOffs, Peek(m, st.next_in, n))], n)

\* lines 432-443: the for loop that stages header bytes in inHdr
StageHeader(st, m) ==
  LET n == IF st.inHdrOffs < HEADER_SIZE
           THEN Min(st.avail_in, HEADER_SIZE - st.inHdrOffs) ELSE 0
  IN inSeek([st EXCEPT !.inHdr = Poke(@, st.inHdrOffs, Peek(m, st.next_in, n)),
                       !.inHdrOffs = @ + n], n)

\* a step of the header phase; code "go" continues the call
HeaderStep(st, code, block_size, hdr) ==
  [s |-> st, code |-> code, block_size |-> block_size, hdr |-> hdr]

\* lines 448-473: header on client region, h its fields
HeaderDirect(st, bytes, h, may_buffer) ==
  IF ~may_buffer /\ st.avail_in < h.compressed
  THEN HeaderStep([st EXCEPT !.msg = "Need more data on input"], "BUF_ERROR",
                  h.block_size, <<>>)
  ELSE IF ~may_buffer /\ st.avail_out < h.original
  THEN HeaderStep([st EXCEPT !.msg = "Need more room on output"], "BUF_ERROR",
                  h.block_size, <<>>)
  ELSE HeaderStep(inSeek([st EXCEPT !.block_type = h.type, !.str_size = h.compressed,
                                    !.dec_size = h.original], HEADER_SIZE),
                  "go", h.block_size, bytes)

\* lines 474-487: header in the inHdr buffer, h its fields
HeaderBuffered(st, bytes, h, may_buffer) ==
  IF ~may_buffer THEN HeaderStep(st, "ABORT", 0, <<>>)
  ELSE HeaderStep([st EXCEPT !.block_type = h.type, !.str_size = h.compressed,
                             !.dec_size = h.original, !.inHdrOffs = 0],
                  "go", h.block_size, bytes)

\* lines 445-493: process header if completed
HeaderStaged(st, m, may_buffer) ==
  IF st.inHdrOffs = 0 /\ st.avail_in >= HEADER_SIZE
  THEN HeaderDirect(st, Peek(m, st.next_in, HEADER_SIZE),
                    fastlz_read_header(Peek(m, st.next_in, HEADER_SIZE)), may_buffer)
  ELSE IF st.inHdrOffs = HEADER_SIZE
  THEN HeaderBuffered(st, Peek(st.inHdr, 0, HEADER_SIZE),
                      fastlz_read_header(Peek(st.inHdr, 0, HEADER_SIZE)), may_buffer)
  ELSE HeaderStep(st, IF may_buffer THEN "OK" ELSE "ABORT", 0, <<>>)

\* lines 429-494
DecompressHeader(st0, m, may_buffer) ==
  IF st0.inHdrOffs # 0 \/ st0.avail_in < HEADER_SIZE
  THEN IF st0.inHdrOffs = 0 /\ ~may_buffer
       THEN HeaderStep([st0 EXCEPT !.msg = "Need more data on input"], "BUF_ERROR",
                       0, <<>>)
       ELSE HeaderStaged(StageHeader(st0, m), m, may_buffer)
  ELSE HeaderStaged(st0, m, may_buffer)

\* CompressHeader applying the block size before it refuses the call
CompressHeader_EarlyApply(st, flush, may_buffer) ==
  LET short == BLOCK_SIZE(st) > st.avail_in
      str_size == IF short /\ flush > Z_NO_FLUSH THEN st.avail_in ELSE BLOCK_SIZE(st)
      applied == [st EXCEPT !.block_type = BLOCK_TYPE_COMPRESSED,
                            !.str_size = str_size, !.dec_size = 0]
  IN IF short /\ ~(flush > Z_NO_FLUSH) /\ ~may_buffer
     THEN [s |-> [applied EXCEPT !.msg = "Need more data on input"],
           code |-> "BUF_ERROR", block_size |-> 0, hdr |-> <<>>]
     ELSE [s |-> applied, code |-> "go", block_size |-> 0, hdr |-> <<>>]

\* lines 496-514: the compressor makes up the next block's size
CompressHeader(st, flush, may_buffer) ==
  LET short == BLOCK_SIZE(st) > st.avail_in
      str_size == IF short /\ flush > Z_NO_FLUSH THEN st.avail_in ELSE BLOCK_SIZE(st)
  IN IF short /\ ~(flush > Z_NO_FLUSH) /\ ~may_buffer
     THEN [s |-> [st EXCEPT !.msg = "Need more data on input"], code |-> "BUF_ERROR",
           block_size |-> 0, hdr |-> <<>>]
     ELSE [s |-> [st EXCEPT !.block_type = BLOCK_TYPE_COMPRESSED,
                            !.str_size = str_size, !.dec_size = 0],
           code |-> "go", block_size |-> 0, hdr |-> <<>>]

\* lines 516-545: checks on the block just announced
ValidateHeader(h) ==
  LET st == [h.s EXCEPT !.outBuffOffs = h.s.dec_size]
      Err(code, msg) == [s |-> [st EXCEPT !.msg = msg], code |-> code]
  IN IF st.block_type = BLOCK_TYPE_BAD_MAGIC
     THEN Err("DATA_ERROR", "Corrupted compressed stream (bad magic)")
     ELSE IF st.block_type # BLOCK_TYPE_RAW /\ st.block_type # BLOCK_TYPE_COMPRESSED
     THEN Err("VERSION_ERROR", "Corrupted compressed stream (illegal block type)")
     ELSE IF h.block_size > BLOCK_SIZE(st)
     THEN Err("VERSION_ERROR", "Block size too large")
     ELSE IF st.dec_size > BUFFER_BLOCK_SIZE(st)
     THEN Err("VERSION_ERROR", "Corrupted compressed stream (illegal decompressed size)")
     ELSE IF st.str_size > BUFFER_BLOCK_SIZE(st)
     THEN Err("VERSION_ERROR", "Corrupted compressed stream (illegal stream size)")
     ELSE IF st.str_size = 0 /\ st.dec_size = 0
     THEN [s |-> st, code |-> "STREAM_END"]
     ELSE [s |-> st, code |-> "go"]

\* a step of the call before the transform: in is <<>> for NULL, else <<bytes>>
Step(st, code, in, hdr) == [s |-> st, code |-> code, in |-> in, hdr |-> hdr]

\* PayloadDirect returning once the header is applied, the payload left to the next call
PayloadDirect_NextCall(st, m, hdr) == Step([st EXCEPT !.inBuffOffs = 0], "OK", <<>>, hdr)

\* lines 547-555: direct data fully available, or otherwise buffered
PayloadDirect(st, m, hdr) ==
  IF st.avail_in >= st.str_size
  THEN Step(inSeek(st, st.str_size), "go", <<Peek(m, st.next_in, st.str_size)>>, hdr)
  ELSE Step([st EXCEPT !.inBuffOffs = 0], "go", <<>>, hdr)

\* lines 516-555, v the outcome of the checks
HeaderChecked(v, m, hdr) ==
  IF v.code # "go" THEN Step(v.s, v.code, <<>>, hdr) ELSE PayloadDirect(v.s, m, hdr)

\* lines 516-555, h the outcome of the header read
HeaderRead(h, m) ==
  IF h.code # "go" THEN Step(h.s, h.code, <<>>, h.hdr)
  ELSE HeaderChecked(ValidateHeader(h), m, h.hdr)

\* lines 424-556
HeaderPhase(st0, m, flush, may_buffer) ==
  HeaderRead(IF ZFAST_IS_DECOMPRESSING(st0) THEN DecompressHeader(st0, m, may_buffer)
             ELSE CompressHeader(st0, flush, may_buffer), m)

\* lines 578-586: block stream size reached, or flush of what was staged
PayloadStaged(st, flush) ==
  IF st.inBuffOffs = st.str_size
  THEN Step(st, "go", <<Peek(st.inBuff, 0, st.str_size)>>, <<>>)
  ELSE IF flush # Z_NO_FLUSH
  THEN Step([st EXCEPT !.str_size = st.inBuffOffs], "go",
            <<Peek(st.inBuff, 0, st.inBuffOffs)>>, <<>>)
  ELSE Step(st, "go", <<>>, <<>>)

\* lines 562-586: stage the payload in inBuff
PayloadPhase(st0, m, flush) ==
  LET size == IF st0.inBuffOffs < st0.str_size
              THEN Min(st0.str_size - st0.inBuffOffs, st0.avail_in) ELSE 0
  IN PayloadStaged(inSeek([st0 EXCEPT !.inBuff = Poke(@, st0.inBuffOffs,
                                                      Peek(m, st0.next_in, size)),
                                      !.inBuffOffs = @ + size], size), flush)

\* lines 600-641, d the outcome of the block decoder
BlockDecoded(st0, d) ==
  LET direct == st0.avail_out >= st0.dec_size
      st == IF direct
            THEN [outSeek(st0, st0.dec_size) EXCEPT !.outBuffOffs = st0.dec_size,
                                                    !.str_size = 0]
            ELSE [st0 EXCEPT !.outBuffOffs = 0, !.str_size = 0, !.outBuff = Poke(@, 0, d.data)]
      wr == IF direct THEN Peek(d.data, 0, st0.dec_size) ELSE <<>>
  IN IF st0.block_type # BLOCK_TYPE_COMPRESSED /\ st0.block_type # BLOCK_TYPE_RAW
     THEN Result(st0, "ABORT", <<>>)
     ELSE IF d.done # st0.dec_size
     THEN Result([st EXCEPT !.msg = "Unable to decompress block stream"],
                 "STREAM_ERROR", wr)
     ELSE Result(st, "go", wr)

\* lines 600-641
DecompressBlock(st0, in) ==
  BlockDecoded(st0, IF st0.block_type = BLOCK_TYPE_COMPRESSED
                    THEN fastlz_decompress(in, st0.dec_size)
                    ELSE IF st0.dec_size >= Len(in) THEN [done |-> Len(in), data |-> in]
                    ELSE [done |-> 0, data |-> <<>>])

\* lines 643-676, c the outcome of fastlz_compress_hdr
BlockCompressed(st0, direct, c) ==
  IF ~c.ok THEN Result(st0, "ABORT", <<>>)
  ELSE IF direct
  THEN Result([outSeek(st0, Len(c.bytes)) EXCEPT !.outBuffOffs = st0.dec_size,
                                                 !.str_size = 0], "go", c.bytes)
  ELSE Result([st0 EXCEPT !.outBuff = Poke(@, 0, c.bytes), !.dec_size = Len(c.bytes),
                          !.outBuffOffs = 0, !.str_size = 0], "go", <<>>)

\* lines 643-676
CompressBlock(st0, in, flush_now) ==
  LET in_size == st0.str_size
      estimated_dec_size == in_size + in_size \div EXPANSION_RATIO + EXPANSION_SECURITY
      direct == st0.avail_out >= estimated_dec_size
  IN BlockCompressed(st0, direct,
                     fastlz_compress_hdr(in, IF direct THEN estimated_dec_size
                                             ELSE BUFFER_BLOCK_SIZE(st0),
                                         BLOCK_SIZE(st0), zlibLevelToFastlz(st0.level),
                                         flush_now))

\* TransformPhase passing FINISH on while input remains
TransformPhase_NoDowngrade(st, in, flush) ==
  IF ZFAST_IS_DECOMPRESSING(st) THEN DecompressBlock(st, in)
  ELSE CompressBlock(st, in, flush)

\* lines 588-677
TransformPhase(st, in, flush) ==
  LET flush_now == IF flush = Z_FINISH /\ ~ZFAST_INPUT_IS_EMPTY(st) THEN Z_NO_FLUSH
                   ELSE flush
  IN IF ZFAST_IS_DECOMPRESSING(st) THEN DecompressBlock(st, in)
     ELSE CompressBlock(st, in, flush_now)

\* lines 679-690
FinalCode(st, flush) ==
  IF flush = Z_FINISH /\ ZFAST_INPUT_IS_EMPTY(st) /\ ~ZFAST_HAS_BUFFERED_OUTPUT(st)
  THEN "STREAM_END" ELSE "OK"

\* lines 679-690, t the outcome of the transform
Transformed(t, flush, hdr) ==
  IF t.ret # "go" THEN [t EXCEPT !.hdr = hdr]
  ELSE [Result(t.s, FinalCode(t.s, flush), t.wr) EXCEPT !.hdr = hdr]

\* lines 588-690, p the step that left a block to transform or none yet
PayloadRead(p, flush, hdr) ==
  Transformed(IF p.in # <<>> THEN TransformPhase(p.s, p.in[1], flush)
              ELSE Result(p.s, "go", <<>>), flush, hdr)

\* lines 557-690, h the outcome of the header phase
HeaderDone(h, m, flush) ==
  IF h.code # "go" THEN [Result(h.s, h.code, <<>>) EXCEPT !.hdr = h.hdr]
  ELSE PayloadRead(IF h.in = <<>> THEN PayloadPhase(h.s, m, flush) ELSE h, flush, h.hdr)

\* in_null, out_null: the caller passed next_in = NULL, next_out = NULL
fastlzlibProcess(st, m, in_null, out_null, flush, may_buffer) ==
  IF in_null /\ ~ZFAST_INPUT_IS_EMPTY(st)
  THEN Result([st EXCEPT !.msg = "Invalid input"], "STREAM_ERROR", <<>>)
  ELSE IF out_null /\ ~ZFAST_OUTPUT_IS_FULL(st)
  THEN Result([st EXCEPT !.msg = "Invalid output"], "STREAM_ERROR", <<>>)
  ELSE IF ZFAST_HAS_BUFFERED_OUTPUT(st) THEN DrainPhase(st)
  ELSE HeaderDone(IF st.str_size = 0 THEN HeaderPhase(st, m, flush, may_buffer)
                  ELSE Step(st, "go", <<>>, <<>>), m, flush)

fastlzlibDecompress2(st, m, in_null, out_null, may_buffer) ==
  IF ZFAST_IS_DECOMPRESSING(st)
  THEN fastlzlibProcess(st, m, in_null, out_null, Z_NO_FLUSH, may_buffer)
  ELSE Result([st EXCEPT !.msg = "Decompressing function used with a compressing stream"],
              "STREAM_ERROR", <<>>)

fastlzlibCompress2(st, m, in_null, out_null, flush, may_buffer) ==
  IF ZFAST_IS_COMPRESSING(st)
  THEN fastlzlibProcess(st, m, in_null, out_null, flush, may_buffer)
  ELSE Result([st EXCEPT !.msg = "Compressing function used with a decompressing stream"],
              "STREAM_ERROR", <<>>)

\* the first offset of hits, or past where none
FirstHit(hits, past) ==
  [k |-> IF hits # {} THEN CHOOSE x \in hits : \A y \in hits : x <= y ELSE past,
   found |-> hits # {}]

\* lines 750-767; the scan stops at the first offset k whose 20 bytes open with the
\* magic and have a nonzero block size, or where fewer than 20 bytes remain
SyncScan(st, m) ==
  FirstHit({k \in 0..(st.avail_in - HEADER_SIZE) :
              /\ Peek(m, st.next_in + k, 7) = BLOCK_MAGIC
              /\ fastlzlibGetStreamBlockSize(Peek(m, st.next_in + k, HEADER_SIZE),
                                             HEADER_SIZE) # 0},
           st.avail_in - HEADER_SIZE + 1)

\* lines 750-771, f the outcome of the scan
Scanned(st, f) ==
  IF f.found THEN Result(inSeek([st EXCEPT !.inHdrOffs = f.k], f.k), "OK", <<>>)
  ELSE Result(inSeek([st EXCEPT !.inHdrOffs = f.k, !.msg = "No flush point found"], f.k),
              "DATA_ERROR", <<>>)

fastlzlibDecompressSync(st, m) ==
  IF ~ZFAST_IS_DECOMPRESSING(st)
  THEN Result([st EXCEPT !.msg = "Decompressing function used with a compressing stream"],
              "STREAM_ERROR", <<>>)
  ELSE IF ZFAST_HAS_BUFFERED_OUTPUT(st) THEN Result(st, "OK", <<>>)
  ELSE IF st.avail_in < HEADER_SIZE
  THEN Result([st EXCEPT !.msg = "Need more data on input"], "BUF_ERROR", <<>>)
  ELSE Scanned(st, SyncScan(st, m))

fastlzlibIsCompressedStream(input, length) ==
  IF length >= HEADER_SIZE
  THEN IF fastlzlibGetStreamBlockSize(input, length) # 0 THEN "OK" ELSE "DATA_ERROR"
  ELSE "BUF_ERROR"

(***************************************************************************)
(* The caller: inputs, windows, flush schedule                             *)
(***************************************************************************)
BlockSizes == {MIN_BLOCK_SIZE, MIN_BLOCK_SIZE + BlockExtra}

\* one level for each mode of the block compressor
Levels == {Z_BEST_SPEED, Z_BEST_COMPRESSION}

\* the input of length n: runs of zero bytes separated by two literals
Pattern(n) == [i \in 1..n |-> IF i % PatternPeriod < 2 THEN (i % 3) + 1 ELSE 0]

InputLens(bs) == {0, 1, bs, MaxBlocks * bs + 1}

CompressWindows == {PartWindow, HugeWindow}

DecompressWindows == {SmallWindow, PartWindow, HugeWindow}

OutWindows == {PartWindow, HugeWindow}

Remaining(st) == Len(mem) - st.next_in

\* the caller's assignment of avail_in and avail_out before a call
Window(st, ai, ao) == [st EXCEPT !.avail_in = Min(ai, Remaining(st)), !.avail_out = ao]

NoCall == [op |-> "init", avail_in |-> 0, avail_out |-> 0, flush |-> Z_NO_FLUSH,
           handed |-> FALSE, strict |-> TRUE, lax |-> TRUE, hdr |-> <<>>,
           synced |-> FALSE]

\* call.strict: every call so far had may_buffer = 0; call.lax: every call had it 1
Uniform == call.strict \/ call.lax

Running == ret \in {"OK", "BUF_ERROR"}

\* the last call was refused for a NULL next_in or next_out
NullMisuse == ret = "STREAM_ERROR" /\ s.msg \in {"Invalid input", "Invalid output"}

(***************************************************************************)
(* Compressing stream                                                      *)
(***************************************************************************)
InitCompress ==
  \E bs \in BlockSizes, lv \in Levels :
    \E n \in InputLens(bs) :
      /\ s = fastlzlibCompressInit2(lv, bs)
      /\ mem = Pattern(n)
      /\ orig = Pattern(n)
      /\ out = <<>>
      /\ call = [NoCall EXCEPT !.handed = (n = 0)]
      /\ ret = "OK"
      /\ fresh = <<>>
      /\ resets = 0
      /\ heap = Allocated

\* the same call on the stream that was initialised when s was last reset
FreshCall(ai, ao, inn, outn, fl, mb) ==
  IF fresh = <<>> THEN <<>>
  ELSE LET Called(f, r) == <<[s |-> r.s, out |-> f.out \o r.wr, ret |-> r.ret]>>
       IN Called(fresh[1],
                 fastlzlibCompress2([fresh[1].s EXCEPT
                                       !.avail_in = Min(ai, Len(mem) - fresh[1].s.next_in),
                                       !.avail_out = ao],
                                    mem, inn, outn, fl, mb))

\* a call of fastlzlibCompress2 with flush one of Flushes.  flush is NO_FLUSH until a
\* window has reached the end of the input, FINISH from then on; a FINISH call offers all
\* the input that remains; any other flush may come at any time
CompressOp(mb, Flushes) ==
  \E ai \in CompressWindows, ao \in OutWindows, fl \in Flushes,
     inn \in BOOLEAN, outn \in BOOLEAN :
    LET w == Window(s, ai, ao)
        last == w.avail_in = Remaining(s)
        Returned(r) ==
          /\ s' = r.s
          /\ out' = out \o r.wr
          /\ ret' = r.ret
          /\ call' = [op |-> "compress", avail_in |-> w.avail_in, avail_out |-> ao,
                      flush |-> fl, handed |-> call.handed \/ last,
                      strict |-> call.strict /\ ~mb, lax |-> call.lax /\ mb,
                      hdr |-> r.hdr, synced |-> FALSE]
    IN /\ heap.state # NULL
       /\ Running
       /\ ZFAST_IS_COMPRESSING(s)
       /\ fl = Z_NO_FLUSH => ~call.handed
       /\ fl = Z_FINISH => last
       /\ inn \/ outn => call.op = "init"
       /\ Returned(fastlzlibCompress2(w, mem, inn, outn, fl, mb))
       /\ fresh' = FreshCall(ai, ao, inn, outn, fl, mb)
       /\ UNCHANGED <<mem, resets, orig, heap>>

CompressCall(mb) == CompressOp(mb, {Z_NO_FLUSH, Z_FINISH})

\* fastlzlibCompress, lines 715-717
Compress == CompressCall(TRUE)

\* fastlzlibCompress with a flush other than NO_FLUSH and FINISH
CompressFlush == CompressOp(TRUE, {Z_SYNC_FLUSH})

\* fastlzlibCompress2 with may_buffer = 0
Compress2 == CompressCall(FALSE)

\* fastlzlibReset as the two public reset functions call it; fastlzlibReset leaves the
\* caller's fields alone, and the caller then starts over on its input, with an empty
\* output region and the two counters set back to zero
ResetCall ==
  /\ ret # "ABORT"
  /\ resets < MaxResets
  /\ call.op # "init"
  /\ s' = [fastlzlibReset(s) EXCEPT !.next_in = 0, !.avail_in = 0, !.total_in = 0,
                                    !.next_out = 0, !.avail_out = 0, !.total_out = 0]
  /\ out' = <<>>
  /\ ret' = "OK"
  /\ call' = [NoCall EXCEPT !.op = "reset", !.handed = (Len(mem) = 0)]
  /\ fresh' = IF ZFAST_IS_COMPRESSING(s)
              THEN <<[s |-> fastlzlibCompressInit2(s.level, s.block_size), out |-> <<>>,
                      ret |-> "OK"]>>
              ELSE <<>>
  /\ resets' = resets + 1
  /\ UNCHANGED <<mem, orig, heap>>

\* fastlzlibCompressReset, lines 271-277
CompressReset == ZFAST_IS_COMPRESSING(s) /\ ResetCall

\* fastlzlibDecompressReset, lines 279-281; a decompressing stream that was reset is not
\* driven further
DecompressReset == ZFAST_IS_DECOMPRESSING(s) /\ ResetCall

NextCompress == Compress \/ Compress2

SpecCompress == InitCompress /\ [][NextCompress]_vars

(***************************************************************************)
(* The wire format, read back from a byte sequence                         *)
(***************************************************************************)
HasHeader(w) == Len(w) >= HEADER_SIZE /\ SubSeq(w, 1, 7) = BLOCK_MAGIC

IsEOFMarker(w) ==
  /\ HasHeader(w)
  /\ w[8] = BLOCK_TYPE_COMPRESSED
  /\ READ_32(w, 8) = 0
  /\ READ_32(w, 12) = 0

IsBlock(w) ==
  /\ HasHeader(w)
  /\ w[8] \in {BLOCK_TYPE_RAW, BLOCK_TYPE_COMPRESSED}
  /\ READ_32(w, 12) > 0
  /\ READ_32(w, 8) > 0
  /\ Len(w) >= HEADER_SIZE + READ_32(w, 8)

\* zero or more blocks followed by exactly one EOF marker
RECURSIVE WellFramed(_)
WellFramed(w) ==
  IF Len(w) = HEADER_SIZE THEN IsEOFMarker(w)
  ELSE IsBlock(w) /\ WellFramed(Drop(w, HEADER_SIZE + READ_32(w, 8)))

\* the compressed form of m: FINISH calls on all of m with a huge output window,
\* repeated until STREAM_END
RECURSIVE FinishAll(_, _, _)
FinishAll(st, m, acc) ==
  LET Returned(r) == IF r.ret = "OK" THEN FinishAll(r.s, m, acc \o r.wr) ELSE acc \o r.wr
  IN Returned(fastlzlibCompress2([st EXCEPT !.avail_in = Len(m) - st.next_in,
                                            !.avail_out = HugeWindow],
                                 m, FALSE, FALSE, Z_FINISH, TRUE))

OneShot(m, level, block_size) ==
  FinishAll(fastlzlibCompressInit2(level, block_size), m, <<>>)

CompressEnded == call.op = "compress" /\ ret = "STREAM_END"

\* C2: whatever the windows, a compression that ends has produced the bytes of the
\* one-shot compression of the same input
C2_ChunkingInvariance ==
  CompressEnded => out = OneShot(orig, s.level, s.block_size)

\* C3: when compress returns STREAM_END the output is zero or more blocks followed by
\* exactly one EOF marker
C3_EndsWithEOF == CompressEnded => WellFramed(out)

\* a stream is not driven after an error other than BUF_ERROR, except through sync
DecompressCall(mb) ==
  \E ai \in DecompressWindows, ao \in OutWindows, inn \in BOOLEAN, outn \in BOOLEAN :
    LET w == Window(s, ai, ao)
        Returned(r) ==
          /\ s' = r.s
          /\ out' = out \o r.wr
          /\ ret' = r.ret
          /\ call' = [op |-> "decompress", avail_in |-> w.avail_in, avail_out |-> ao,
                      flush |-> Z_NO_FLUSH, handed |-> call.handed,
                      strict |-> call.strict /\ ~mb, lax |-> call.lax /\ mb,
                      hdr |-> r.hdr, synced |-> call.synced]
    IN /\ heap.state # NULL
       /\ Running
       /\ call.op = "sync" => ret = "OK"
       /\ call.op # "reset"
       /\ ZFAST_IS_DECOMPRESSING(s)
       /\ inn \/ outn => call.op = "init"
       /\ Returned(fastlzlibDecompress2(w, mem, inn, outn, mb))
       /\ UNCHANGED <<mem, resets, orig, fresh, heap>>

\* fastlzlibDecompress, lines 702-704
Decompress == DecompressCall(TRUE)

\* fastlzlibDecompress2 with may_buffer = 0
Decompress2 == DecompressCall(FALSE)

\* fastlzlibDecompressSync, called first thing or after an error return
DecompressSync ==
  \E ai \in DecompressWindows :
    LET w == Window(s, ai, s.avail_out)
        Returned(r) == s' = r.s /\ ret' = r.ret
    IN /\ call.op = "init" \/ ret \in {"DATA_ERROR", "VERSION_ERROR", "STREAM_ERROR"}
       /\ ZFAST_IS_DECOMPRESSING(s)
       /\ Returned(fastlzlibDecompressSync(w, mem))
       /\ call' = [call EXCEPT !.op = "sync", !.avail_in = w.avail_in, !.hdr = <<>>,
                               !.synced = TRUE]
       /\ UNCHANGED <<mem, out, resets, orig, fresh, heap>>

(***************************************************************************)
(* Streams for the decompressor: what the encoder writes for the model's   *)
(* inputs, the lone EOF marker, and damaged copies of the two-block stream *)
(***************************************************************************)
EncoderBlockSize == MIN_BLOCK_SIZE + BlockExtra

EOFMarker(block_size) == fastlz_write_header(BLOCK_TYPE_COMPRESSED, block_size, 0, 0)

ValidWire(n) ==
  IF n = 0 THEN EOFMarker(EncoderBlockSize)
  ELSE OneShot(Pattern(n), Z_BEST_SPEED, EncoderBlockSize)

TwoBlocks == ValidWire(MaxBlocks * EncoderBlockSize + 1)

\* offset of the second header of w
SecondHeader(w) == HEADER_SIZE + READ_32(w, 8)

Damage(w, offs, byte) == [i \in 1..Len(w) |-> IF i = offs + 1 THEN byte ELSE w[i]]

Junk == <<7, 70, 97>>

Damaged(w) ==
  { Damage(w, 0, 71),                          \* magic of the first header
    Damage(w, SecondHeader(w) + 6, 1),         \* magic of the second header
    Damage(w, 7, 1),                           \* block type
    Damage(w, 9, 4),                           \* compressed length + 1024
    Damage(w, 13, 4),                          \* original length + 1024
    Damage(w, HEADER_SIZE, 255),               \* first token of the payload
    Junk \o w,
    Damage(w \o w, SecondHeader(w) + 7, 1) }   \* type of the second block, a stream after

DamagedWires == Damaged(TwoBlocks)

ValidInputs == {0, 1, EncoderBlockSize, MaxBlocks * EncoderBlockSize + 1}

InitDecompress ==
  \E bs \in BlockSizes :
    /\ s = fastlzlibDecompressInit2(bs)
    /\ \/ \E n \in ValidInputs : mem = ValidWire(n) /\ orig = Pattern(n)
       \/ bs = EncoderBlockSize /\ mem \in DamagedWires /\ orig = <<>>
    /\ out = <<>>
    /\ call = NoCall
    /\ ret = "OK"
    /\ fresh = <<>>
    /\ resets = 0
    /\ heap = Allocated

NextDecompress == Decompress \/ DecompressSync

SpecDecompress == InitDecompress /\ [][NextDecompress]_vars

(***************************************************************************)
(* Round trip: the bytes a finished compression produced are handed to a   *)
(* decompressing stream of the same block size                             *)
(***************************************************************************)
HandOver ==
  /\ CompressEnded
  /\ s' = fastlzlibDecompressInit2(s.block_size)
  /\ mem' = out
  /\ out' = <<>>
  /\ ret' = "OK"
  /\ call' = NoCall
  /\ UNCHANGED <<resets, orig, fresh, heap>>

NextRoundTrip == Compress \/ HandOver \/ Decompress

SpecRoundTrip == InitCompress /\ [][NextRoundTrip]_vars

IsPrefix(p, q) == Len(p) <= Len(q) /\ p = SubSeq(q, 1, Len(p))

\* nothing is staged and all the input is consumed
DecodeQuiescent ==
  /\ s.next_in = Len(mem)
  /\ s.str_size = 0
  /\ s.inHdrOffs = 0
  /\ ~ZFAST_HAS_BUFFERED_OUTPUT(s)

\* C1: decompressing what compress produced writes the original bytes, whatever the
\* windows on either side (may_buffer the same in every decompress call): never an
\* error, never a wrong byte, and all of the original once the compressed bytes are
\* used up
C1_RoundTrip ==
  ZFAST_IS_DECOMPRESSING(s) /\ Uniform =>
    /\ ret \in {"OK", "BUF_ERROR", "STREAM_END"} \/ NullMisuse
    /\ IsPrefix(out, orig)
    /\ (DecodeQuiescent \/ ret = "STREAM_END") => out = orig

C1_Witness ==
  /\ ZFAST_IS_DECOMPRESSING(s)
  /\ ret = "STREAM_END"
  /\ call.avail_in = SmallWindow
  /\ Len(orig) > MIN_BLOCK_SIZE + 1
  /\ out = orig

(***************************************************************************)
(* Both directions, buffered and unbuffered calls mixed                    *)
(***************************************************************************)
InitValid ==
  /\ s = fastlzlibDecompressInit2(EncoderBlockSize)
  /\ \E n \in ValidInputs : mem = ValidWire(n) /\ orig = Pattern(n)
  /\ out = <<>>
  /\ call = NoCall
  /\ ret = "OK"
  /\ fresh = <<>>
  /\ resets = 0
  /\ heap = Allocated

Init == InitCompress \/ InitValid

Next == Compress \/ Compress2 \/ Decompress \/ Decompress2

Spec == Init /\ [][Next]_vars

IsProcessCall == call.op \in {"compress", "decompress"}

\* C4: a process call that returns OK or STREAM_END never moves a counter back, and
\* total_in, next_in advance by what avail_in lost, total_out, next_out by what
\* avail_out lost
C4_MonotoneCursors ==
  [][ (IsProcessCall' /\ ret' \in {"OK", "STREAM_END"}) =>
        /\ s'.total_in >= s.total_in
        /\ s'.total_out >= s.total_out
        /\ s'.total_in - s.total_in = call'.avail_in - s'.avail_in
        /\ s'.next_in - s.next_in = call'.avail_in - s'.avail_in
        /\ s'.total_out - s.total_out = call'.avail_out - s'.avail_out
        /\ s'.next_out - s.next_out = call'.avail_out - s'.avail_out
        /\ Len(out') = s'.next_out ]_vars

C4_Witness ==
  /\ IsProcessCall
  /\ ret = "STREAM_END"
  /\ s.total_in > MIN_BLOCK_SIZE
  /\ s.total_out > MIN_BLOCK_SIZE
  /\ s.avail_in = 0
  /\ call.avail_in > 0

\* C5: a process call that returns BUF_ERROR leaves the cursors, the counters and the
\* internal state as they were when it was called
C5_BufErrorFrame ==
  [][ (IsProcessCall' /\ ret' = "BUF_ERROR") =>
        /\ s'.next_in = s.next_in /\ s'.total_in = s.total_in
        /\ s'.next_out = s.next_out /\ s'.total_out = s.total_out
        /\ s'.avail_in = call'.avail_in /\ s'.avail_out = call'.avail_out
        /\ s'.inHdrOffs = s.inHdrOffs /\ s'.block_type = s.block_type
        /\ s'.str_size = s.str_size /\ s'.dec_size = s.dec_size
        /\ s'.inBuffOffs = s.inBuffOffs /\ s'.outBuffOffs = s.outBuffOffs
        /\ out' = out ]_vars

\* an unbuffered call was refused in the middle of a stream
C5_Witness ==
  /\ IsProcessCall
  /\ ret = "BUF_ERROR"
  /\ s.total_in > 0
  /\ call.avail_in > 0

\* C6: on a stream that only ever saw unbuffered calls, no header, payload or output
\* is staged in the internal buffers after a call
C6_NothingStaged ==
  (IsProcessCall /\ call.strict) =>
    /\ s.inHdrOffs = 0
    /\ ~(0 < s.str_size /\ s.inBuffOffs < s.str_size)
    /\ s.outBuffOffs = s.dec_size

(***************************************************************************)
(* Resynchronisation and header checks on damaged streams                  *)
(***************************************************************************)
HeaderAt(w, offs) == Peek(w, offs, HEADER_SIZE)

\* a sync call that was given at least one header's worth of input
SyncReturned == call.op = "sync" /\ call.avail_in >= HEADER_SIZE

\* C7: decompressSync returns DATA_ERROR, or OK with next_in at a header that the next
\* decompress call parses as the start of a block
C7_SyncContract ==
  LET Resumes(r) == r.hdr = HeaderAt(mem, s.next_in) /\ r.s.next_in >= s.next_in + HEADER_SIZE
  IN SyncReturned =>
       \/ ret = "DATA_ERROR"
       \/ /\ ret = "OK"
          /\ fastlzlibGetStreamBlockSize(HeaderAt(mem, s.next_in), HEADER_SIZE) # 0
          /\ Resumes(fastlzlibDecompress2(Window(s, HugeWindow, HugeWindow), mem,
                                          FALSE, FALSE, TRUE))

\* the header fields as the wire format lays them out
WireType(h) == IF SubSeq(h, 1, 7) = BLOCK_MAGIC THEN h[8] ELSE BLOCK_TYPE_BAD_MAGIC

WireBlockSize(h) == READ_32(h, 16)

WireCompressed(h) == READ_32(h, 8)

WireOriginal(h) == READ_32(h, 12)

HeaderAcquired == call.op = "decompress" /\ call.hdr # <<>>

\* C9: with a full header acquired, decompress answers DATA_ERROR "bad magic" for a wrong
\* magic, and VERSION_ERROR for an unknown type, for a declared block_size above the
\* decoder's, and for a compressed or original length above BUFFER_BLOCK_SIZE
C9_HeaderValidation ==
  HeaderAcquired =>
    IF WireType(call.hdr) = BLOCK_TYPE_BAD_MAGIC
    THEN ret = "DATA_ERROR" /\ s.msg = "Corrupted compressed stream (bad magic)"
    ELSE (\/ WireType(call.hdr) \notin {BLOCK_TYPE_RAW, BLOCK_TYPE_COMPRESSED}
          \/ WireBlockSize(call.hdr) > BLOCK_SIZE(s)
          \/ WireCompressed(call.hdr) > BUFFER_BLOCK_SIZE(s)
          \/ WireOriginal(call.hdr) > BUFFER_BLOCK_SIZE(s))
         => ret = "VERSION_ERROR"

\* a buffered call with room on both sides takes input, delivers output or ends the stream
CallMoves ==
  LET Moved(r) == \/ r.s.total_in > s.total_in
                  \/ r.s.total_out > s.total_out
                  \/ r.ret = "STREAM_END"
  IN \A ai \in DecompressWindows, ao \in OutWindows :
       Moved(fastlzlibDecompress2(Window(s, ai, ao), mem, FALSE, FALSE, TRUE))

\* weak fairness of Decompress, WF_vars(Decompress), with ENABLED <<Decompress>>_vars
\* written as the state predicate it amounts to: a call can be made while the stream is
\* Running, and by CallMoves it changes the state
FairFeed == []<>(~Running) \/ []<><<Decompress>>_vars

SpecFeed == InitValid /\ [][Decompress]_vars /\ FairFeed

\* C8: on a valid stream every buffered decompress call returns OK while input remains,
\* the call that takes the last byte of the EOF marker returns STREAM_END, STREAM_END is
\* returned only for an EOF header, every call moves the stream on, and STREAM_END comes
C8_DecodeProgress ==
  /\ [](call.op = "decompress" /\ ~NullMisuse =>
          /\ s.next_in < Len(mem) => ret = "OK"
          /\ s.next_in = Len(mem) => ret = "STREAM_END"
          /\ ret = "STREAM_END" => IsEOFMarker(call.hdr))
  /\ [](Running => CallMoves)
  /\ <>(ret = "STREAM_END" \/ NullMisuse)

\* two blocks and the EOF marker taken one byte at a time
C8_Witness ==
  /\ call.op = "decompress"
  /\ ret = "STREAM_END"
  /\ call.avail_in = SmallWindow
  /\ s.total_in = Len(TwoBlocks)
  /\ out = Pattern(MaxBlocks * EncoderBlockSize + 1)

(***************************************************************************)
(* Reset in the middle of a stream                                         *)
(***************************************************************************)
NextReset == Compress \/ Decompress \/ CompressReset \/ DecompressReset

\* compressing streams, and decompressing streams on valid and on damaged input
InitReset == InitCompress \/ InitDecompress

SpecReset == InitReset /\ [][NextReset]_vars

Internal(st) ==
  <<st.inHdrOffs, st.block_type, st.str_size, st.dec_size, st.inBuffOffs, st.outBuffOffs,
    st.level, st.block_size>>

\* C10: reset zeroes inHdrOffs, block_type, str_size, dec_size, inBuffOffs, outBuffOffs and
\* keeps level, block_size and the buffers; from then on the stream returns and writes what
\* a newly initialised stream does for the same calls
C10_Reset ==
  /\ [][call'.op = "reset" =>
          /\ s'.inHdrOffs = 0 /\ s'.block_type = 0 /\ s'.str_size = 0
          /\ s'.dec_size = 0 /\ s'.inBuffOffs = 0 /\ s'.outBuffOffs = 0
          /\ s'.level = s.level /\ s'.block_size = s.block_size
          /\ s'.inHdr = s.inHdr /\ s'.inBuff = s.inBuff /\ s'.outBuff = s.outBuff]_vars
  /\ [](fresh # <<>> =>
          /\ Internal(s) = Internal(fresh[1].s)
          /\ ret = fresh[1].ret
          /\ out = fresh[1].out)

\* a compression that was reset and then ran to its end over more than one block
C10_Witness ==
  /\ resets = 1
  /\ fresh # <<>>
  /\ CompressEnded
  /\ Len(orig) > MIN_BLOCK_SIZE
  /\ s.outBuff # fresh[1].s.outBuff
  /\ out = fresh[1].out

(***************************************************************************)
(* Lifecycle: init with allocations that may be refused, calls, end        *)
(***************************************************************************)
\* a descriptor the caller has zeroed and not initialised
Zeroed == [next_in |-> 0, avail_in |-> 0, total_in |-> 0,
           next_out |-> 0, avail_out |-> 0, total_out |-> 0, msg |-> ""]

\* the caller's fields of a descriptor: all that is left once the state is gone
Descriptor(st) ==
  [next_in |-> st.next_in, avail_in |-> st.avail_in, total_in |-> st.total_in,
   next_out |-> st.next_out, avail_out |-> st.avail_out, total_out |-> st.total_out,
   msg |-> st.msg]

\* lines 220-228: both buffers there, or everything freed and Z_MEM_ERROR
BuffersAsked(h) ==
  IF h.inBuff # NULL /\ h.outBuff # NULL THEN [heap |-> h, code |-> "OK"]
  ELSE [heap |-> fastlzlibFree(h), code |-> "MEM_ERROR"]

\* lines 214-228 when the state was refused: strcpy at line 216 stores through a null
\* pointer.  Either the process ends there, or the stores go unnoticed: the buffers are
\* asked for, their pointers are lost with the state, and fastlzlibFree finds state NULL
NullState(h, okIn, okOut) ==
  { [heap |-> h, code |-> "SEGV"],
    [heap |-> [AllocOutBuff(AllocInBuff(h, okIn), okOut)
                 EXCEPT !.inBuff = NULL, !.outBuff = NULL],
     code |-> IF okIn /\ okOut THEN "OK" ELSE "MEM_ERROR"] }

\* the allocations of fastlzlibInit, lines 214-228: the outcomes of a call in which the
\* three requests are granted or refused as okState, okIn, okOut say
fastlzlibInitHeap(h, okState, okIn, okOut) ==
  IF okState
  THEN {BuffersAsked(AllocOutBuff(AllocInBuff(AllocState(h, TRUE), okIn), okOut))}
  ELSE NullState(AllocState(h, FALSE), okIn, okOut)

\* an init call on the zeroed descriptor (s # NULL); st is the stream it sets up when it
\* succeeds
InitCall(st) ==
  /\ call.op = "init"
  /\ heap = NoHeap
  /\ \E okState \in BOOLEAN, okIn \in BOOLEAN, okOut \in BOOLEAN :
       \E r \in fastlzlibInitHeap(heap, okState, okIn, okOut) :
         /\ heap' = r.heap
         /\ ret' = r.code
         /\ s' = IF r.code = "OK" /\ r.heap.state # NULL THEN st ELSE s
         /\ call' = [NoCall EXCEPT !.op = "open", !.handed = (Len(mem) = 0)]
  /\ UNCHANGED <<mem, out, fresh, resets, orig>>

\* fastlzlibCompressInit2, lines 231-241
CompressInit2 ==
  \E lv \in Levels, bs \in BlockSizes : InitCall(fastlzlibCompressInit2(lv, bs))

\* fastlzlibDecompressInit2, lines 247-253
DecompressInit2 == \E bs \in BlockSizes : InitCall(fastlzlibDecompressInit2(bs))

\* fastlzlibCompressEnd and fastlzlibDecompressEnd, lines 259-269, on the descriptor
\* (s # NULL); the caller ends it at most twice in a row
End ==
  /\ ret # "SEGV"
  /\ call.op = "end" => ~call.again
  /\ heap' = fastlzlibFree(heap)
  /\ ret' = "OK"
  /\ s' = Descriptor(s)
  /\ call' = [op |-> "end", again |-> call.op = "end"]
  /\ UNCHANGED <<mem, out, fresh, resets, orig>>

InitLife ==
  /\ s = Zeroed
  /\ mem \in {Pattern(MIN_BLOCK_SIZE + 1), TwoBlocks}
  /\ orig = mem
  /\ out = <<>>
  /\ call = NoCall
  /\ ret = "OK"
  /\ fresh = <<>>
  /\ resets = 0
  /\ heap = NoHeap

NextLife == CompressInit2 \/ DecompressInit2 \/ Compress \/ Decompress \/ End

SpecLife == InitLife /\ [][NextLife]_vars

\* the blocks a stream holds
Held(h) == {h.state, h.inBuff, h.outBuff} \ {NULL}

Times(q, x) == Cardinality({i \in 1..Len(q) : q[i] = x})

\* C11: end on a descriptor returns OK and leaves the state pointer null; on an
\* initialised stream it frees inBuff, outBuff and the state, each exactly once, whatever
\* the stream was in the middle of; on an ended or zeroed descriptor it frees nothing
C11_End ==
  [][call'.op = "end" =>
       /\ ret' = "OK"
       /\ heap'.state = NULL
       /\ heap.state # NULL =>
            /\ Cardinality(Held(heap)) = 3
            /\ Len(heap'.freed) = Len(heap.freed) + 3
            /\ \A b \in Held(heap) : Times(heap'.freed, b) = 1 /\ b \notin heap'.live
            /\ heap'.live = {}
       /\ heap.state = NULL => heap' = heap]_vars

\* a stream ended twice in the middle of its work
C11_Witness ==
  /\ call.op = "end"
  /\ call.again
  /\ Len(heap.freed) = 3
  /\ s.total_in > 0
  /\ s.total_in < Len(mem)

\* C12: an init call on a descriptor returns OK or MEM_ERROR; if one of the three
\* allocations is refused it returns MEM_ERROR with every granted block freed and the
\* state pointer null; if none is, it returns OK with offsets and block descriptors zero
C12_InitOutcome ==
  call.op = "open" =>
    /\ ret \in {"OK", "MEM_ERROR"}
    /\ heap.refused > 0 => ret = "MEM_ERROR" /\ heap.live = {} /\ heap.state = NULL
    /\ heap.refused = 0 =>
         /\ ret = "OK"
         /\ heap.live = {heap.state, heap.inBuff, heap.outBuff}
         /\ s.inHdrOffs = 0 /\ s.block_type = 0 /\ s.str_size = 0 /\ s.dec_size = 0
         /\ s.inBuffOffs = 0 /\ s.outBuffOffs = 0

(***************************************************************************)
(* The two stream probes, on buffers that start with a header the encoder  *)
(* writes, with a damaged header, or with a whole stream                   *)
(***************************************************************************)
DEFAULT_BLOCK_SIZE == 32768

HeaderLengths == {0, 1, MIN_BLOCK_SIZE, MIN_BLOCK_SIZE + BlockExtra}

WrittenHeaders ==
  { fastlz_write_header(type, bs, c, o) :
      type \in {BLOCK_TYPE_RAW, BLOCK_TYPE_COMPRESSED},
      bs \in BlockSizes \cup {DEFAULT_BLOCK_SIZE},
      c \in HeaderLengths, o \in HeaderLengths }

ProbeBuffers ==
  WrittenHeaders \cup {ValidWire(n) : n \in ValidInputs} \cup DamagedWires

\* the length the caller states: nothing, less than a header, a header, all of the buffer
ProbeLengths(buf) == {0, HEADER_SIZE - 1, HEADER_SIZE, Len(buf)}

InitProbe ==
  /\ mem \in ProbeBuffers
  /\ s = Zeroed
  /\ orig = <<>>
  /\ out = <<>>
  /\ call = NoCall
  /\ ret = "OK"
  /\ fresh = <<>>
  /\ resets = 0
  /\ heap = NoHeap

\* fastlzlibIsCompressedStream, lines 719-726
IsCompressedStream ==
  \E length \in ProbeLengths(mem) :
    /\ ret' = fastlzlibIsCompressedStream(mem, length)
    /\ call' = [op |-> "isCompressedStream", length |-> length]
    /\ UNCHANGED <<s, mem, out, fresh, resets, orig, heap>>

\* fastlzlibGetStreamBlockSize, lines 343-353
GetStreamBlockSize ==
  \E length \in ProbeLengths(mem) :
    /\ ret' = fastlzlibGetStreamBlockSize(mem, length)
    /\ call' = [op |-> "getStreamBlockSize", length |-> length]
    /\ UNCHANGED <<s, mem, out, fresh, resets, orig, heap>>

NextProbe == IsCompressedStream \/ GetStreamBlockSize

SpecProbe == InitProbe /\ [][NextProbe]_vars

\* a header the encoder can emit: a RAW or COMPRESSED block, or the EOF marker
ValidHeader(w) ==
  /\ HasHeader(w)
  /\ w[8] \in {BLOCK_TYPE_RAW, BLOCK_TYPE_COMPRESSED}
  /\ \/ WireCompressed(w) > 0 /\ WireOriginal(w) > 0
     \/ IsEOFMarker(w)

\* C13: isCompressedStream returns BUF_ERROR for a length below 20, DATA_ERROR for 20
\* bytes or more that do not open with the magic, and OK for 20 bytes or more that open
\* with a header the encoder can emit, the EOF marker included
C13_IsCompressedStream ==
  call.op = "isCompressedStream" =>
    /\ call.length < HEADER_SIZE => ret = "BUF_ERROR"
    /\ call.length >= HEADER_SIZE /\ ~HasHeader(mem) => ret = "DATA_ERROR"
    /\ call.length >= HEADER_SIZE /\ ValidHeader(mem) => ret = "OK"

\* C14: getStreamBlockSize returns the block size the encoder wrote at offset 16 of the
\* header, and 0 for a length below 20 or a wrong magic
C14_BlockSizeRoundTrip ==
  call.op = "getStreamBlockSize" =>
    IF call.length >= HEADER_SIZE /\ HasHeader(mem)
    THEN ret = WireBlockSize(mem)
    ELSE ret = 0

(***************************************************************************)
(* The invariants of the internal state between calls                      *)
(***************************************************************************)
\* the last call returned without an error
Succeeded == ret \in {"OK", "STREAM_END"}

\* C15: after every call inHdrOffs is in 0..20, and it is 0 when no split header is being
\* assembled, as after decompressSync returns
C15_HeaderOffset ==
  /\ s.inHdrOffs \in 0..HEADER_SIZE
  /\ call.op = "sync" => s.inHdrOffs = 0

NoBlock == s.str_size = 0 /\ s.outBuffOffs = s.dec_size

Buffering == 0 <= s.inBuffOffs /\ s.inBuffOffs < s.str_size

Draining == s.outBuffOffs < s.dec_size

\* C16: after every call that returned without an error, exactly one of: no block in
\* progress, a block payload being buffered, a produced block being drained
C16_BlockProgress ==
  Succeeded =>
    \/ NoBlock /\ ~Buffering /\ ~Draining
    \/ ~NoBlock /\ Buffering /\ ~Draining
    \/ ~NoBlock /\ ~Buffering /\ Draining

\* C17: after every call that returned without an error, str_size and dec_size are at
\* most BUFFER_BLOCK_SIZE, the capacity of inBuff and outBuff
C17_SizeBound ==
  Succeeded =>
    /\ s.str_size <= BUFFER_BLOCK_SIZE(s)
    /\ s.dec_size <= BUFFER_BLOCK_SIZE(s)

(***************************************************************************)
(* The order of the phases of a call                                       *)
(***************************************************************************)
\* the step delivered size bytes of outBuff and did nothing else
Drained(size) ==
  /\ ret' = "OK"
  /\ out' = out \o Peek(s.outBuff, s.outBuffOffs, size)
  /\ s' = [s EXCEPT !.avail_in = call'.avail_in,
                    !.avail_out = call'.avail_out - size,
                    !.next_out = @ + size, !.total_out = @ + size,
                    !.outBuffOffs = @ + size]

\* C18: a process call that starts with outBuffOffs < dec_size copies
\* min(dec_size - outBuffOffs, avail_out) bytes of outBuff to next_out, advances outBuffOffs
\* and the output cursor by that, returns OK, consumes no input and changes nothing else
C18_DrainFirst ==
  [][(IsProcessCall' /\ ZFAST_HAS_BUFFERED_OUTPUT(s)) =>
       Drained(Min(s.dec_size - s.outBuffOffs, call'.avail_out))]_vars

\* part of a staged block was delivered while input was on offer
C18_Witness ==
  /\ IsProcessCall
  /\ 0 < s.outBuffOffs
  /\ s.outBuffOffs < s.dec_size
  /\ s.avail_in > 0
  /\ call.avail_in = s.avail_in

(***************************************************************************)
(* Compression with every kind of flush                                    *)
(***************************************************************************)
NextFlush == Compress \/ CompressFlush

SpecFlush == InitCompress /\ [][NextFlush]_vars

\* C20: compress returns STREAM_END only when called with FINISH, with avail_in 0 on
\* return and nothing pending in outBuff; with any other flush a call that does not fail
\* returns OK
C20_StreamEndOnlyOnFinish ==
  call.op = "compress" =>
    /\ ret = "STREAM_END" =>
         /\ call.flush = Z_FINISH
         /\ s.avail_in = 0
         /\ ~ZFAST_HAS_BUFFERED_OUTPUT(s)
    /\ (call.flush # Z_FINISH /\ Succeeded) => ret = "OK"

\* the step is a call that went through the header phase: nothing staged for output, no
\* block announced, and a header applied (decompress) or a block size made up (compress)
AcquiresHeader ==
  /\ IsProcessCall'
  /\ ~ZFAST_HAS_BUFFERED_OUTPUT(s)
  /\ s.str_size = 0
  /\ ret' \in {"OK", "STREAM_END"}
  /\ ZFAST_IS_DECOMPRESSING(s) => call'.hdr # <<>>

\* the input bytes the header took in the step
HeaderBytes == IF ZFAST_IS_DECOMPRESSING(s) THEN HEADER_SIZE - s.inHdrOffs ELSE 0

\* C19 as stated: a call that acquires a header does nothing else; it neither consumes
\* nor transforms the payload of that block
C19_OnePhase ==
  [][AcquiresHeader =>
       /\ s'.total_in = s.total_in + HeaderBytes
       /\ s'.total_out = s.total_out
       /\ ~ZFAST_HAS_BUFFERED_OUTPUT(s')]_vars

\* the block announced is produced by the step: delivered, or staged in outBuff
BlockOut(size) ==
  (s'.total_out - s.total_out) + (s'.dec_size - s'.outBuffOffs) = size

\* a decompress step after a header of a block with c payload bytes for o bytes, with rest
\* bytes of input left after the header
FallsThrough(c, o, rest) ==
  IF c = 0 /\ o = 0
  THEN ret' = "STREAM_END" /\ s'.total_in = s.total_in + HeaderBytes
  ELSE IF rest >= c
  THEN /\ s'.total_in = s.total_in + HeaderBytes + c
       /\ s'.str_size = 0
       /\ BlockOut(o)
  ELSE /\ s'.total_in = s.total_in + HeaderBytes + rest
       /\ s'.str_size = c
       /\ s'.inBuffOffs = rest
       /\ s'.total_out = s.total_out

\* a compress step that made up a block of size bytes with avail bytes on offer
CompressesThrough(size, avail) ==
  IF avail >= size
  THEN /\ s'.total_in = s.total_in + size
       /\ s'.str_size = 0
       /\ size > 0 => (s'.total_out > s.total_out \/ ZFAST_HAS_BUFFERED_OUTPUT(s'))
  ELSE /\ s'.total_in = s.total_in + avail
       /\ s'.str_size = size
       /\ s'.inBuffOffs = avail
       /\ s'.total_out = s.total_out

\* C19, amended: a call that starts with staged output only drains; any other call runs
\* the header, payload and transform phases in that order and falls through from one to
\* the next: a call that acquires a header consumes the payload on offer in the same call
\* and transforms the block when all of its payload is there; a call handles one block
C19_PhasesFallThrough ==
  /\ [][(IsProcessCall' /\ ZFAST_HAS_BUFFERED_OUTPUT(s)) =>
          call'.hdr = <<>> /\ s'.total_in = s.total_in /\ s'.str_size = s.str_size]_vars
  /\ [][(AcquiresHeader /\ ZFAST_IS_DECOMPRESSING(s)) =>
          FallsThrough(WireCompressed(call'.hdr), WireOriginal(call'.hdr),
                       call'.avail_in - HeaderBytes)]_vars
  /\ [][(AcquiresHeader /\ ZFAST_IS_COMPRESSING(s) /\ call'.flush = Z_NO_FLUSH) =>
          CompressesThrough(BLOCK_SIZE(s), call'.avail_in)]_vars
  /\ [][(IsProcessCall' /\ ~ZFAST_HAS_BUFFERED_OUTPUT(s) /\ s.str_size > 0) =>
          /\ call'.hdr = <<>>
          /\ s'.total_in - s.total_in <= s.str_size - s.inBuffOffs]_vars

\* one decompress call took a header and its block's payload and delivered the block
C19_Witness ==
  /\ call.op = "decompress"
  /\ call.hdr # <<>>
  /\ WireOriginal(call.hdr) > MIN_BLOCK_SIZE
  /\ ret = "OK"
  /\ s.str_size = 0
  /\ s.total_in = HEADER_SIZE + WireCompressed(call.hdr)
  /\ s.total_out = WireOriginal(call.hdr)

(***************************************************************************)
(* Block encoding                                                          *)
(***************************************************************************)
NextEncode == Compress \/ Compress2 \/ CompressFlush

\* compressing with every flush mode, buffered and unbuffered
SpecEncode == InitCompress /\ [][NextEncode]_vars

\* what a block of the bytes chunk carries after its header
Payload(level, chunk) ==
  IF Len(chunk) > MIN_BLOCK_SIZE THEN fastlz_compress_level(zlibLevelToFastlz(level), chunk)
  ELSE chunk

\* the header at the front of w announces the block whose payload is p, of type type
Announces(w, L, type, p) ==
  /\ w[8] = type
  /\ READ_32(w, 8) = Len(p)
  /\ Take(Drop(w, HEADER_SIZE), Len(p)) = Take(p, Len(w) - HEADER_SIZE)

\* the bytes w delivered so far are blocks that encode input from offset offs on, each
\* as its length asks, the last one possibly not delivered whole yet; an EOF marker ends w
RECURSIVE EncodedFrom(_, _, _, _, _)
EncodedFrom(w, input, offs, bs, level) ==
  IF Len(w) < HEADER_SIZE THEN w = Take(BLOCK_MAGIC, Len(w)) \/ Take(w, 7) = BLOCK_MAGIC
  ELSE IF IsEOFMarker(w) THEN Len(w) = HEADER_SIZE
  ELSE /\ HasHeader(w)
       /\ READ_32(w, 12) >= 1
       /\ READ_32(w, 12) <= bs
       /\ offs + READ_32(w, 12) <= Len(input)
       /\ Announces(w, READ_32(w, 12),
                    IF READ_32(w, 12) > MIN_BLOCK_SIZE THEN BLOCK_TYPE_COMPRESSED
                    ELSE BLOCK_TYPE_RAW,
                    Payload(level, SubSeq(input, offs + 1, offs + READ_32(w, 12))))
       /\ READ_32(w, 12) <= MIN_BLOCK_SIZE => READ_32(w, 8) = READ_32(w, 12)
       /\ Len(w) > HEADER_SIZE + READ_32(w, 8) =>
            EncodedFrom(Drop(w, HEADER_SIZE + READ_32(w, 8)), input,
                        offs + READ_32(w, 12), bs, level)

\* C21: every block that compress emits carries 1..block_size original bytes; above
\* MIN_BLOCK_SIZE bytes it is a COMPRESSED block holding the block compressor's output,
\* else a RAW block holding the input bytes; a one-shot compression of MIN_BLOCK_SIZE
\* bytes with that block size is one RAW block and the EOF marker
C21_BlockEncoding ==
  /\ EncodedFrom(out, orig, 0, s.block_size, s.level)
  /\ (Len(orig) = MIN_BLOCK_SIZE /\ s.block_size = MIN_BLOCK_SIZE) =>
       OneShot(orig, s.level, s.block_size) =
         fastlz_write_header(BLOCK_TYPE_RAW, MIN_BLOCK_SIZE, MIN_BLOCK_SIZE, MIN_BLOCK_SIZE)
           \o orig
           \o fastlz_write_header(BLOCK_TYPE_COMPRESSED, MIN_BLOCK_SIZE, 0, 0)

\* a compression that ended after a COMPRESSED block of a full block and a RAW block of
\* the byte left over
C21_Witness ==
  /\ CompressEnded
  /\ Len(orig) = s.block_size + 1
  /\ s.block_size > MIN_BLOCK_SIZE
  /\ out[8] = BLOCK_TYPE_COMPRESSED
  /\ READ_32(out, 12) = s.block_size
  /\ READ_32(out, 8) < s.block_size
  /\ Len(out) = 3 * HEADER_SIZE + READ_32(out, 8) + 1
  /\ out[HEADER_SIZE + READ_32(out, 8) + 8] = BLOCK_TYPE_RAW

(***************************************************************************)
(* FINISH with input pending                                               *)
(***************************************************************************)
\* the bytes a compress step produced: delivered to the caller, or staged in outBuff
Emitted ==
  IF ZFAST_HAS_BUFFERED_OUTPUT(s') THEN Peek(s'.outBuff, 0, s'.dec_size)
  ELSE Drop(out', Len(out))

\* the step is a compress call that transformed a block
TransformsBlock ==
  /\ call'.op = "compress"
  /\ ~ZFAST_HAS_BUFFERED_OUTPUT(s)
  /\ ret' \in {"OK", "STREAM_END"}
  /\ Emitted # <<>>

EndsWithEOF(w) ==
  Len(w) >= HEADER_SIZE /\ IsEOFMarker(Drop(w, Len(w) - HEADER_SIZE))

\* w is one block and nothing else
OneBlock(w) == IsBlock(w) /\ Len(w) = HEADER_SIZE + READ_32(w, 8)

\* C22: a FINISH call that transforms a block while input remains after the block's
\* payload emits that block without an EOF marker and returns OK; only a FINISH call
\* whose input is all consumed when it transforms the block appends the EOF marker
C22_FinishWithPendingInput ==
  /\ [][(TransformsBlock /\ call'.flush = Z_FINISH /\ s'.avail_in > 0) =>
          /\ OneBlock(Emitted)
          /\ ret' = "OK"]_vars
  /\ [][(TransformsBlock /\ EndsWithEOF(Emitted)) =>
          /\ call'.flush = Z_FINISH
          /\ s'.avail_in = 0]_vars

\* a first FINISH call took a full block, left a byte of input, delivered the block with
\* no EOF marker and returned OK
C22_Witness ==
  /\ call.op = "compress"
  /\ call.flush = Z_FINISH
  /\ call.avail_in = s.block_size + 1
  /\ s.avail_in = 1
  /\ s.total_in = s.block_size
  /\ ret = "OK"
  /\ OneBlock(out)
  /\ READ_32(out, 12) = s.block_size

(***************************************************************************)
(* The asserts of the header phase                                         *)
(***************************************************************************)
\* the last call ended in one of the two assert(may_buffer) of lines 479 and 491: a
\* header complete in inHdr, or partly staged, in a call that may not buffer
HeaderAssertFailed ==
  /\ call.op = "decompress"
  /\ ret = "ABORT"
  /\ s.str_size = 0
  /\ s.inHdrOffs > 0

\* C23: whatever the may_buffer of each decompress call on a stream, no call fails an
\* assert(may_buffer) of the header phase
C23_AssertsHold == ~HeaderAssertFailed

====
